---- MODULE Spec2Model ----
(***************************************************************************)
(* Model of the ping monitor (main.go): main's startup sequence, the       *)
(* monitorDevices loop with its statuses map and message builder, icmpPing *)
(* and sendTelegramMessage.                                                *)
(***************************************************************************)
EXTENDS Integers, Sequences, FiniteSets, TLC

\* ---------------------------------------------------------------- bounds
MaxDevices == 2
MaxCycle == 3

\* ------------------------------------------------------ program constants
PingCount == 3
StatusOK == 200

\* ------------------------------------------------------------ input sets
IPs == {"10.0.0.1", "10.0.0.2"}
Descriptions == {"router", "printer"}
Device == [Description : Descriptions, IP : IPs]
DeviceLists == UNION {[1..n -> Device] : n \in 0..MaxDevices}
Tokens == {"", "token"}
ChatIDs == {"", "chat"}
StatusCodes == {StatusOK, 403}
ConfigResults == {"readErr", "unmarshalErr", "ok"}

\* Result of driving the pinger: construction may fail, Run may fail (after
\* any number of replies), otherwise the statistics hold PacketsRecv.
PingOutcomes ==
    {[kind |-> "NewPingerErr", PacketsRecv |-> 0]}
    \cup [kind : {"RunErr", "Done"}, PacketsRecv : 0..PingCount]
NoOutcome == [kind |-> "none", PacketsRecv |-> 0]

\* Result of the HTTP delivery: json.Marshal error, http.Post error, or a
\* response carrying a status code.
SendOutcomes == [marshalErr : BOOLEAN, postErr : BOOLEAN, StatusCode : StatusCodes]

VARIABLES
    pc,              \* position of the process
    exitCode,        \* -1 while running, exit status once main has returned
    diag,            \* a diagnostic message has been printed by main
    botToken, chatID,
    devices,         \* config.Devices
    statuses,        \* map[string]string as a set of <<key, value>> entries
    messageBuilder,  \* lines written to the strings.Builder this cycle
    messageChanged,
    idx,             \* position of the range loop over devices
    status,          \* local of the loop body
    previousStatus,  \* local of the loop body
    exists,          \* local of the loop body
    err,             \* error returned by the last sendTelegramMessage
    outcome,         \* what the pinger did in the last icmpPing call
    cycle,           \* number of the running cycle, saturating at MaxCycle
    changedLog,      \* per probed device of this cycle: was the if-branch taken
    statusLog,       \* per probed device of this cycle: the observed status
    sent,            \* calls of sendTelegramMessage in this cycle
    sentMessage,     \* message handed to the last call of this cycle
    lastProbe,       \* per address: result of its most recent probe ("" if none)
    priorProbe,      \* lastProbe of the probed address before the last probe
    sendFailed       \* some sendTelegramMessage call has returned an error

vars == <<pc, exitCode, diag, botToken, chatID, devices, statuses,
          messageBuilder, messageChanged, idx, status, previousStatus, exists,
          err, outcome, cycle, changedLog, statusLog, sent, sentMessage,
          lastProbe, priorProbe, sendFailed>>

startupVars == <<exitCode, diag, botToken, chatID, devices>>
loopLocals == <<status, previousStatus, exists, outcome, priorProbe>>

\* ------------------------------------------------------------ map helpers
MapHas(m, k) == \E p \in m : p[1] = k

MapGet(m, k) == IF MapHas(m, k) THEN (CHOOSE p \in m : p[1] = k)[2] ELSE ""

MapSet_keepOld(m, k, v) == m \cup {<<k, v>>}

MapSet_dropOthers(m, k, v) == {<<k, v>>}

MapSet(m, k, v) == {p \in m : p[1] # k} \cup {<<k, v>>}

MapLen(m) == Cardinality(m)

MapKeys(m) == {p[1] : p \in m}

\* ------------------------------------------------------------- icmpPing
icmpPing_ignoreRunErr(o) ==
    IF o.kind = "NewPingerErr" THEN FALSE ELSE o.PacketsRecv > 0

icmpPing(o) ==
    IF o.kind = "NewPingerErr" THEN FALSE
    ELSE IF o.kind = "RunErr" THEN FALSE
    ELSE o.PacketsRecv > 0

\* -------------------------------------------------- sendTelegramMessage
sendTelegramMessage(o) ==
    IF o.marshalErr THEN "could not encode message to JSON"
    ELSE IF o.postErr THEN "could not send message to Telegram"
    ELSE IF o.StatusCode # StatusOK THEN "unexpected status code"
    ELSE "nil"

\* ------------------------------------------------ monitorDevices helpers
StatusOf(online) == IF online THEN "online" ELSE "offline"

EmojiOf(online) == IF online THEN "green" ELSE "red"

FormatLine(emoji, description, ip, st) == <<emoji, description, ip, st>>

StatusChanged_onlyExisting(ex, prev, st) == ex /\ prev # st

StatusChanged_always(ex, prev, st) == TRUE

StatusChanged(ex, prev, st) == ~ex \/ prev # st

ShouldSend_onlyEmpty(changed, m) == MapLen(m) = 0

ShouldSend(changed, m) == changed \/ MapLen(m) = 0

NextIndex(i) == i + 1

\* A delivery error is only printed; control falls through to the sleep.
AfterSend_fatal(e) == IF e # "nil" THEN "exited" ELSE "sleep"

AfterSend(e) == "sleep"

NextCycle(c) == IF c < MaxCycle THEN c + 1 ELSE c

\* ------------------------------------------------------------------ Init
Init ==
    /\ pc = "loadEnv"
    /\ exitCode = -1
    /\ diag = FALSE
    /\ botToken = ""
    /\ chatID = ""
    /\ devices = <<>>
    /\ statuses = {}
    /\ messageBuilder = <<>>
    /\ messageChanged = FALSE
    /\ idx = 1
    /\ status = ""
    /\ previousStatus = ""
    /\ exists = FALSE
    /\ err = "nil"
    /\ outcome = NoOutcome
    /\ cycle = 0
    /\ changedLog = <<>>
    /\ statusLog = <<>>
    /\ sent = 0
    /\ sentMessage = <<>>
    /\ lastProbe = [a \in IPs |-> ""]
    /\ priorProbe = ""
    /\ sendFailed = FALSE

monitorVars == <<statuses, messageBuilder, messageChanged, idx, status,
                 previousStatus, exists, err, outcome, cycle, changedLog,
                 statusLog, sent, sentMessage, lastProbe, priorProbe, sendFailed>>

\* main prints a diagnostic and returns: the process ends with status 0.
MainReturn ==
    /\ diag' = TRUE
    /\ pc' = "exited"
    /\ exitCode' = 0

\* ------------------------------------------------------------------ main
LoadEnv ==
    /\ pc = "loadEnv"
    /\ \E ok \in BOOLEAN :
         IF ok
         THEN /\ pc' = "getEnv"
              /\ UNCHANGED <<exitCode, diag>>
         ELSE MainReturn
    /\ UNCHANGED <<botToken, chatID, devices>>
    /\ UNCHANGED monitorVars

GetEnv ==
    /\ pc = "getEnv"
    /\ \E t \in Tokens, c \in ChatIDs :
         /\ botToken' = t
         /\ chatID' = c
         /\ IF t = "" \/ c = ""
            THEN MainReturn
            ELSE /\ pc' = "readConfig"
                 /\ UNCHANGED <<exitCode, diag>>
    /\ UNCHANGED devices
    /\ UNCHANGED monitorVars

ReadConfig ==
    /\ pc = "readConfig"
    /\ \E r \in ConfigResults, ds \in DeviceLists :
         IF r # "ok"
         THEN /\ MainReturn
              /\ UNCHANGED devices
         ELSE /\ devices' = ds
              /\ pc' = "monitor"
              /\ UNCHANGED <<exitCode, diag>>
    /\ UNCHANGED <<botToken, chatID>>
    /\ UNCHANGED monitorVars

\* -------------------------------------------------------- monitorDevices
EnterMonitor ==
    /\ pc = "monitor"
    /\ statuses' = {}
    /\ pc' = "cycleStart"
    /\ UNCHANGED startupVars
    /\ UNCHANGED <<messageBuilder, messageChanged, idx, err, cycle, changedLog,
                   statusLog, sent, sentMessage, lastProbe, sendFailed>>
    /\ UNCHANGED loopLocals

CycleStart ==
    /\ pc = "cycleStart"
    /\ messageBuilder' = <<>>
    /\ messageChanged' = FALSE
    /\ idx' = 1
    /\ cycle' = NextCycle(cycle)
    /\ changedLog' = <<>>
    /\ statusLog' = <<>>
    /\ sent' = 0
    /\ sentMessage' = <<>>
    /\ err' = "nil"
    /\ status' = ""
    /\ previousStatus' = ""
    /\ exists' = FALSE
    /\ outcome' = NoOutcome
    /\ priorProbe' = ""
    /\ pc' = "probe"
    /\ UNCHANGED startupVars
    /\ UNCHANGED <<statuses, lastProbe, sendFailed>>

ProbeDevice ==
    /\ pc = "probe"
    /\ idx <= Len(devices)
    /\ \E o \in PingOutcomes :
         LET device == devices[idx]
             isOnline == icmpPing(o)
             st == StatusOf(isOnline)
             statusEmoji == EmojiOf(isOnline)
             ex == MapHas(statuses, device.IP)
             prev == MapGet(statuses, device.IP)
             ch == StatusChanged(ex, prev, st)
         IN /\ outcome' = o
            /\ status' = st
            /\ exists' = ex
            /\ previousStatus' = prev
            /\ messageBuilder' =
                 IF ch
                 THEN Append(messageBuilder,
                             FormatLine(statusEmoji, device.Description, device.IP, st))
                 ELSE messageBuilder
            /\ statuses' = IF ch THEN MapSet(statuses, device.IP, st) ELSE statuses
            /\ messageChanged' = IF ch THEN TRUE ELSE messageChanged
            /\ changedLog' = Append(changedLog, ch)
            /\ statusLog' = Append(statusLog, st)
            /\ priorProbe' = lastProbe[device.IP]
            /\ lastProbe' = [lastProbe EXCEPT ![device.IP] = st]
    /\ idx' = NextIndex(idx)
    /\ pc' = "probe"
    /\ UNCHANGED startupVars
    /\ UNCHANGED <<err, cycle, sent, sentMessage, sendFailed>>

NotifySend ==
    /\ pc = "probe"
    /\ idx > Len(devices)
    /\ ShouldSend(messageChanged, statuses)
    /\ \E o \in SendOutcomes :
         LET e == sendTelegramMessage(o)
         IN /\ err' = e
            /\ sendFailed' = (sendFailed \/ e # "nil")
            /\ pc' = AfterSend(e)
    /\ sentMessage' = messageBuilder
    /\ sent' = sent + 1
    /\ UNCHANGED startupVars
    /\ UNCHANGED <<statuses, messageBuilder, messageChanged, idx, cycle,
                   changedLog, statusLog, lastProbe>>
    /\ UNCHANGED loopLocals

NotifySkip ==
    /\ pc = "probe"
    /\ idx > Len(devices)
    /\ ~ShouldSend(messageChanged, statuses)
    /\ pc' = "sleep"
    /\ UNCHANGED startupVars
    /\ UNCHANGED <<statuses, messageBuilder, messageChanged, idx, err, cycle,
                   changedLog, statusLog, sent, sentMessage, lastProbe, sendFailed>>
    /\ UNCHANGED loopLocals

Sleep ==
    /\ pc = "sleep"
    /\ pc' = "cycleStart"
    /\ UNCHANGED startupVars
    /\ UNCHANGED <<statuses, messageBuilder, messageChanged, idx, err, cycle,
                   changedLog, statusLog, sent, sentMessage, lastProbe, sendFailed>>
    /\ UNCHANGED loopLocals

MonitorNext ==
    \/ CycleStart
    \/ ProbeDevice
    \/ NotifySend
    \/ NotifySkip
    \/ Sleep

Next ==
    \/ LoadEnv
    \/ GetEnv
    \/ ReadConfig
    \/ EnterMonitor
    \/ MonitorNext

Spec == Init /\ [][Next]_vars

\* Every probe and every notification call returns and the sleep ends, so a
\* step of the loop that can be taken is eventually taken.
LiveSpec == Spec /\ WF_vars(MonitorNext)

\* ------------------------------------------------------------ properties
TypeOK ==
    /\ pc \in {"loadEnv", "getEnv", "readConfig", "monitor", "cycleStart",
               "probe", "sleep", "exited"}
    /\ exitCode \in {-1, 0}
    /\ devices \in DeviceLists
    /\ statuses \subseteq (IPs \X {"online", "offline"})
    /\ idx \in 1..(Len(devices) + 1)
    /\ cycle \in 0..MaxCycle
    /\ sent \in 0..1

InLoop == pc \in {"cycleStart", "probe", "sleep"}

Probed == Len(statusLog)

NoChangeThisCycle == \A i \in 1..Len(changedLog) : ~changedLog[i]

SomeChangeThisCycle == \E i \in 1..Len(changedLog) : changedLog[i]

Max(S) == CHOOSE x \in S : \A y \in S : y <= x

EarlierSameIP(i) == {j \in 1..(i - 1) : devices[j].IP = devices[i].IP}

\* The status observed by the last probe of address a in this cycle.
LastObserved(a) ==
    statusLog[Max({j \in 1..Len(statusLog) : devices[j].IP = a})]

RECURSIVE ChangedLines(_)
ChangedLines(n) ==
    IF n = 0 THEN <<>>
    ELSE IF changedLog[n]
         THEN Append(ChangedLines(n - 1),
                     FormatLine(EmojiOf(statusLog[n] = "online"),
                                devices[n].Description, devices[n].IP, statusLog[n]))
         ELSE ChangedLines(n - 1)

LinesOf(msg, a) == Cardinality({k \in 1..Len(msg) : msg[k][3] = a})

ChangesOf(a) ==
    Cardinality({i \in 1..Len(changedLog) : changedLog[i] /\ devices[i].IP = a})

\* C1: a cycle in which no status update reported a change has not called
\* sendTelegramMessage (in particular with an empty device list).
C1_NoChangeNoSend ==
    (pc = "sleep" /\ NoChangeThisCycle) => sent = 0

\* C2 as stated: in the first cycle every entry of the device list reports
\* changed=true, entries sharing an address included.
C2_FirstCycleEveryEntryChanged ==
    cycle = 1 => \A i \in 1..Len(changedLog) : changedLog[i]

\* C2 amended: in the first cycle every entry is updated exactly once; an
\* entry whose address does not occur earlier in the list reports
\* changed=true whatever the probe result, and an entry whose address occurs
\* earlier reports changed=true exactly when its probe result differs from
\* the one of the closest earlier entry with that address.
C2_FirstCycleFirstOfAddressChanged ==
    cycle = 1 =>
      /\ pc = "sleep" => Len(changedLog) = Len(devices)
      /\ \A i \in 1..Len(changedLog) :
           IF EarlierSameIP(i) = {}
           THEN changedLog[i]
           ELSE changedLog[i] <=> (statusLog[i] # statusLog[Max(EarlierSameIP(i))])

C2_Witness ==
    /\ cycle = 1
    /\ pc = "sleep"
    /\ Len(devices) = 2
    /\ devices[1].IP = devices[2].IP
    /\ changedLog = <<TRUE, FALSE>>

\* C3: for a target with a stored state, the update reports changed=true
\* iff the observed state differs from the stored one, and afterwards the
\* stored state equals the observed state in both cases.
C3_ChangedIffDiffers ==
    (Len(changedLog) >= 1 /\ exists) =>
      /\ changedLog[Len(changedLog)] <=> (previousStatus # status)
      /\ MapHas(statuses, devices[Len(changedLog)].IP)
      /\ MapGet(statuses, devices[Len(changedLog)].IP) = status

C3_Witness ==
    /\ Len(changedLog) >= 1
    /\ exists
    /\ previousStatus = "online"
    /\ status = "offline"
    /\ changedLog[Len(changedLog)]
    /\ MapGet(statuses, devices[Len(changedLog)].IP) = "offline"

\* C4: a cycle with at least one changed target calls sendTelegramMessage
\* exactly once, after all targets were probed, with one line per changed
\* target and none for unchanged ones, in device list order.
C4_OneMessagePerChangedCycle ==
    /\ sent <= 1
    /\ sent = 1 => (pc \in {"sleep", "cycleStart"} /\ Len(changedLog) = Len(devices))
    /\ (pc = "sleep" /\ SomeChangeThisCycle) =>
         /\ sent = 1
         /\ sentMessage = ChangedLines(Len(devices))

C4_Witness ==
    /\ pc = "sleep"
    /\ cycle >= 2
    /\ Len(devices) = 2
    /\ changedLog = <<FALSE, TRUE>>
    /\ sent = 1
    /\ Len(sentMessage) = 1

\* C5: statuses is empty before the first probe, holds at most one entry
\* per address (only addresses of the device list), reflects the most recent
\* probe of each address, and never loses an entry.
C5_StatusRecord ==
    /\ [](/\ (cycle = 0 \/ (cycle = 1 /\ pc = "probe" /\ idx = 1)) => statuses = {}
          /\ \A p \in statuses : \A q \in statuses : p[1] = q[1] => p = q
          /\ MapKeys(statuses) \subseteq {devices[i].IP : i \in 1..Len(devices)}
          /\ \A a \in IPs : /\ MapHas(statuses, a) <=> lastProbe[a] # ""
                            /\ MapGet(statuses, a) = lastProbe[a])
    /\ [][MapKeys(statuses) \subseteq MapKeys(statuses')]_vars

C5_Witness ==
    /\ cycle >= 2
    /\ Cardinality(statuses) = 2
    /\ exists
    /\ Len(changedLog) >= 1
    /\ changedLog[Len(changedLog)]

\* C6: for one target (one address), a probe result equal to the previous
\* probe result of that target reports changed=false and adds no line, a
\* first or differing result reports changed=true, and the message of a
\* cycle carries exactly one line per reported change of the target.
C6_StableStateNotifiesOnce ==
    /\ Len(changedLog) >= 1 =>
         (changedLog[Len(changedLog)] <=> (priorProbe # status))
    /\ pc = "sleep" =>
         \A a \in IPs :
           /\ LinesOf(sentMessage, a) = ChangesOf(a)
           /\ ChangesOf(a) > 0 => sent = 1

C6_Witness ==
    /\ pc = "sleep"
    /\ cycle = MaxCycle
    /\ Len(devices) = 1
    /\ changedLog = <<FALSE>>
    /\ priorProbe = status
    /\ sent = 0

\* C7: an error returned by sendTelegramMessage does not stop the loop: the
\* cycle ends in the sleep, the next cycle starts, and statuses keeps the
\* states observed in the cycle.
C7_SendErrorNotFatal ==
    /\ [](/\ sendFailed => (InLoop /\ exitCode = -1)
          /\ (pc = "sleep" /\ err # "nil") =>
               /\ Len(statusLog) = Len(devices)
               /\ \A i \in 1..Len(devices) :
                    MapGet(statuses, devices[i].IP) = LastObserved(devices[i].IP))
    /\ [][/\ (sent' = sent + 1 /\ err' # "nil") =>
               (pc' = "sleep" /\ statuses' = statuses)
          /\ pc = "sleep" => pc' = "cycleStart"]_vars

C7_Witness ==
    /\ sendFailed
    /\ err = "nil"
    /\ cycle >= 2
    /\ pc = "probe"
    /\ Len(statusLog) >= 1

\* C8: after a startup failure the process has exited with a non-zero exit
\* code and a diagnostic, and the monitor loop never started.
C8_StartupFailureExitsNonZero ==
    pc = "exited" =>
      /\ exitCode # 0
      /\ diag
      /\ cycle = 0
      /\ sent = 0
      /\ statusLog = <<>>

C10_LoopNeverEnds ==
    /\ [](cycle >= 1 => (InLoop /\ exitCode = -1))
    /\ [](InLoop => <>(pc = "sleep"))
    /\ [](pc = "sleep" => <>(pc = "probe" /\ idx = 1))

C10_Witness ==
    /\ cycle = MaxCycle
    /\ pc = "sleep"
    /\ sendFailed
    /\ Len(devices) = MaxDevices

====
